---- MODULE Spec2Model ----
(***************************************************************************)
(* Model of src/src/main.rs: an eframe application (MyApp) that keeps a    *)
(* drag-driven rotation angle and paints one triangle through a three-d    *)
(* scene (Custom3d) shared with the paint callback behind Arc<Mutex<..>>.  *)
(*                                                                         *)
(* Numbers.  MyApp.angle and the drag delta are f32: a finite f32 is the   *)
(* record [m, e] with value m * 2^e, m = 0 or 2^23 <= |m| < 2^24, and      *)
(* + and * round to nearest, ties to even, as the hardware does.  Pixel    *)
(* coordinates are counted in quarter pixels so that f32::round is         *)
(* exercised on x.25, x.5 and x.75.  Scene geometry is in tenths.          *)
(***************************************************************************)
EXTENDS Integers, Sequences, FiniteSets, TLC

\* ------------------------------------------------------------------ bounds
\* Frames (calls of MyApp::update) a behaviour may contain.
MaxFrames == 3

\* Frames a behaviour of SpecShared may contain.
MaxSharedFrames == 2

\* Callback invocations a behaviour of SpecShared may contain.
MaxInvocations == 3

\* ------------------------------------------------------------- f32 numbers
Pow2(n) == 2 ^ n

Abs(i) == IF i < 0 THEN -i ELSE i

Sign(i) == IF i < 0 THEN -1 ELSE 1

\* Number of bits of a positive integer known to have lo..hi bits.
RECURSIVE BitLenIn(_, _, _)
BitLenIn(a, lo, hi) ==
    IF lo = hi THEN lo
    ELSE IF a < Pow2((lo + hi) \div 2) THEN BitLenIn(a, lo, (lo + hi) \div 2)
    ELSE BitLenIn(a, (lo + hi) \div 2 + 1, hi)

\* Number of bits of a positive integer below 2^31.
BitLen(a) == BitLenIn(a, 1, 31)

\* Bits of an f32 significand (including the hidden bit).
MantissaBits == 24

ZeroF32 == [m |-> 0, e |-> 0]

\* sg * q * 2^e with the remainder r of 2 * half dropped bits rounded in.
RoundedUp(sg, q, r, half, e) ==
    IF r > half \/ (r = half /\ q % 2 = 1)
    THEN (IF q + 1 = Pow2(MantissaBits)
          THEN [m |-> sg * Pow2(MantissaBits - 1), e |-> e + 1]
          ELSE [m |-> sg * (q + 1), e |-> e])
    ELSE [m |-> sg * q, e |-> e]

\* sg * a * 2^e as f32, a having MantissaBits + k bits.
Normalized(sg, a, k, e) ==
    IF k <= 0
    THEN [m |-> sg * a * Pow2(-k), e |-> e + k]
    ELSE RoundedUp(sg, a \div Pow2(k), a % Pow2(k), Pow2(k - 1), e + k)

\* The f32 nearest to i * 2^e (|i| < 2^31), ties to even.
RoundF32(i, e) ==
    IF i = 0 THEN ZeroF32
    ELSE Normalized(Sign(i), Abs(i), BitLen(Abs(i)) - MantissaBits, e)

\* An integer as f32 (exact below 2^24).
FromInt(i) == RoundF32(i, 0)

\* A significand with its trailing zero bits moved into the exponent.
RECURSIVE Reduce(_)
Reduce(x) ==
    IF x.m = 0 \/ x.m % 2 # 0 THEN x ELSE Reduce([m |-> x.m \div 2, e |-> x.e + 1])

\* f32 multiplication: the exact product, rounded once.
MulF32(x, y) ==
    LET a == Reduce(x)
        b == Reduce(y)
    IN  RoundF32(a.m * b.m, a.e + b.e)

\* Bits kept below the larger operand's last place when the exponents are
\* aligned: what a signed 32-bit integer leaves beside a significand.
GuardBits == 30 - MantissaBits

\* |m| shifted right by s bits, any bit shifted out kept as a sticky last bit.
Jam(m, s) ==
    IF s >= 31 THEN (IF m = 0 THEN 0 ELSE 1)
    ELSE LET q == m \div Pow2(s)
         IN  IF m % Pow2(s) = 0 \/ q % 2 = 1 THEN q ELSE q + 1

\* f32 addition: the exact sum, rounded once.
AddF32(x, y) ==
    IF x.m = 0 THEN y
    ELSE IF y.m = 0 THEN x
    ELSE LET big   == IF x.e >= y.e THEN x ELSE y
             small == IF x.e >= y.e THEN y ELSE x
             d     == big.e - small.e
         IN  IF d <= GuardBits
             THEN RoundF32(big.m * Pow2(d) + small.m, small.e)
             ELSE RoundF32(big.m * Pow2(GuardBits)
                             + Sign(small.m) * Jam(Abs(small.m), d - GuardBits),
                           big.e - GuardBits)

\* ---------------------------------------------------------- pixel numbers
\* Quarter pixels in one pixel: the unit of the f32 pixel values below.
PxUnit == 4

\* A cast without .round(): toward zero.
RoundTowardZero(q) == Sign(q) * (Abs(q) \div PxUnit)

\* f32::round on q quarter pixels: nearest integer, halves away from zero.
Round(q) == Sign(q) * ((Abs(q) + PxUnit \div 2) \div PxUnit)

\* `as i32` on an integral f32 in range.
AsI32(i) == i

\* `as u32` on an integral f32: negative values saturate to 0.
AsU32(i) == IF i < 0 THEN 0 ELSE i

\* ------------------------------------------------------------ the program
NoValue == [absent |-> TRUE]

Panic == [panic |-> TRUE]

\* The f32 nearest to 0.1.
SensitivityTenth == [m |-> 13421773, e |-> -27]

\* response.drag_delta().x * 0.01: the f32 nearest to 0.01.
Sensitivity == [m |-> 10737418, e |-> -30]

\* egui::Vec2::splat(512.0): side of the allocated region, in points.
CanvasSize == 512

\* Drag deltas (points) a frame may report.
DragDeltas == {-100, 0, 1, 100}

\* info.viewport_in_pixels(): rectangles the host may report for the region,
\* in quarter pixels (the region is CanvasSize points wide at any scale).
PixelRects ==
    { [left_px |-> 0,  top_px |-> 0,   from_bottom_px |-> 0,
       width_px |-> PxUnit * CanvasSize, height_px |-> PxUnit * CanvasSize],
      [left_px |-> 8 * PxUnit, top_px |-> 33 * PxUnit, from_bottom_px |-> 25 * PxUnit,
       width_px |-> PxUnit * CanvasSize, height_px |-> PxUnit * CanvasSize],
      [left_px |-> -2, top_px |-> 10,  from_bottom_px |-> -3,
       width_px |-> PxUnit * CanvasSize + 2, height_px |-> PxUnit * CanvasSize + 1] }

HostThreads == {"main", "worker"}

MainThread == "main"

VARIABLES
    phase,     \* "start", "running" (run_native holds a MyApp), "panicked"
    startup,   \* what the host and three-d answered during MyApp::new
    angle,     \* MyApp.angle
    lock,      \* the Mutex of MyApp.custom_3d: "free" or the thread holding it
    camera,    \* Custom3d.camera
    model,     \* Custom3d.model
    queue,     \* callbacks handed to ui.painter().add
    pc,        \* per host thread: its place in the callback closure and paint
    cur,       \* per host thread: the closure's captures and paint's arguments
    drags,     \* drag delta of every frame so far
    invoked,   \* per frame: invocations of its callback so far
    log        \* every model.render call: arguments of its paint and state drawn

vars == <<phase, startup, angle, lock, camera, model, queue, pc, cur, drags,
          invoked, log>>

\* Viewport { x: 0, y: 0, width: 0, height: 0 }
PlaceholderViewport == [x |-> 0, y |-> 0, width |-> 0, height |-> 0]

\* Camera::new_perspective(...), lengths in tenths, the angle in degrees.
NewCamera ==
    [viewport |-> PlaceholderViewport,
     position |-> <<0, 0, 20>>, target |-> <<0, 0, 0>>, up |-> <<0, 10, 0>>,
     field_of_view_y |-> 45, z_near |-> 1, z_far |-> 100]

\* positions of the CpuMesh, in tenths.
Positions == << <<5, -5, 0>>, <<-5, -5, 0>>, <<0, 5, 0>> >>

\* colors of the CpuMesh.
Colors == << <<255, 0, 0, 255>>, <<0, 255, 0, 255>>, <<0, 0, 255, 255>> >>

\* Mat4::identity(), the transformation of a new Mesh.
Identity == [rotation |-> "none", radians |-> ZeroF32]

\* Mat4::from_angle_y(radians(angle)): a matrix is kept as the rotation it is.
FromAngleY(a) == [rotation |-> "y", radians |-> a]

\* Gm::new(Mesh::new(&three_d, &cpu_mesh), ColorMaterial::default())
NewModel == [positions |-> Positions, colors |-> Colors, transformation |-> Identity]

\* from_gl_context(..) with its error dropped instead of unwrapped.
Custom3dNewUnchecked(first, second) == [camera |-> NewCamera, model |-> NewModel]

\* Custom3d::new: both Context::from_gl_context(..).unwrap() must succeed.
Custom3dNew(first, second) ==
    IF first = "Err" \/ second = "Err" THEN Panic
    ELSE [camera |-> NewCamera, model |-> NewModel]

\* MyApp::new: cc.gl.as_ref().expect(..), then Custom3d::new, angle 0.0.
MyAppNew(gl, first, second) ==
    IF gl = "None" THEN Panic
    ELSE LET c == Custom3dNew(first, second)
         IN  IF c = Panic THEN Panic ELSE [custom_3d |-> c, angle |-> ZeroF32]

\* self.angle = response.drag_delta().x * 0.01: the angle restarts each frame.
AccumulateAssign(a, dx) == MulF32(dx, Sensitivity)

\* self.angle += response.drag_delta().x * 0.01
Accumulate(a, dx) == AddF32(a, MulF32(dx, Sensitivity))

\* let angle = self.angle taken before the += .
CaptureBefore(before, after) == before

\* let angle = self.angle, after the accumulation (before |-> self.angle on entry).
Capture(before, after) == after

\* The callback added twice.
RegisterTwice(q, callback) == Append(Append(q, callback), callback)

\* ui.painter().add(callback)
Register(q, callback) == Append(q, callback)

\* A lock that never waits.
LockNeverWaits(l) == TRUE

\* custom_3d.lock() returns once no other guard is alive.
LockFree(l) == l = "free"

\* The Viewport paint builds from info.viewport_in_pixels().
ViewportOf(info) ==
    [x      |-> AsI32(Round(info.left_px)),
     y      |-> AsI32(Round(info.from_bottom_px)),
     width  |-> AsU32(Round(info.width_px)),
     height |-> AsU32(Round(info.height_px))]

\* self.camera.set_viewport(viewport)
SetCameraViewport(c, viewport) == [c EXCEPT !.viewport = viewport]

\* The new matrix multiplied onto the old one: rotations about Y add up.
ComposeModelTransformation(g, t) ==
    [g EXCEPT !.transformation =
        [rotation |-> "y", radians |-> AddF32(g.transformation.radians, t.radians)]]

\* The rotation applied to the vertices instead of stored as the transformation
\* (a half turn about Y negates x and z).
BakeModelTransformation(g, t) ==
    [g EXCEPT !.positions = [i \in DOMAIN g.positions |->
                               <<-g.positions[i][1], g.positions[i][2], -g.positions[i][3]>>]]

\* self.model.set_transformation(..)
SetModelTransformation(g, t) == [g EXCEPT !.transformation = t]

\* The draw issued before the camera and the mesh are set.
PaintSequenceDrawFirst == <<"render", "set_viewport", "set_transformation">>

\* The statements of Custom3d::paint that act on the scene, in program order.
PaintSequence == <<"set_viewport", "set_transformation", "render">>

\* The place after statement l of paint; the guard is dropped after the last.
After(l) ==
    LET i == CHOOSE j \in 1..Len(PaintSequence) : PaintSequence[j] = l
    IN  IF i = Len(PaintSequence) THEN "unlock" ELSE PaintSequence[i + 1]

RECURSIVE Total(_)
Total(s) == IF s = <<>> THEN 0 ELSE Head(s) + Total(Tail(s))

Init ==
    /\ phase = "start"
    /\ startup = NoValue
    /\ angle = NoValue
    /\ lock = "free"
    /\ camera = NoValue
    /\ model = NoValue
    /\ queue = <<>>
    /\ pc = [t \in HostThreads |-> "idle"]
    /\ cur = [t \in HostThreads |-> NoValue]
    /\ drags = <<>>
    /\ invoked = <<>>
    /\ log = <<>>

\* eframe::run_native calls the app creator once: Box::new(MyApp::new(cc)).
New ==
    /\ phase = "start"
    /\ \E gl \in {"None", "Some"}, first \in {"Ok", "Err"}, second \in {"Ok", "Err"} :
         LET app == MyAppNew(gl, first, second)
         IN  /\ startup' = [gl |-> gl, first |-> first, second |-> second]
             /\ IF app = Panic
                THEN /\ phase' = "panicked"
                     /\ UNCHANGED <<angle, camera, model>>
                ELSE /\ phase' = "running"
                     /\ angle' = app.angle
                     /\ camera' = app.custom_3d.camera
                     /\ model' = app.custom_3d.model
    /\ UNCHANGED <<lock, queue, pc, cur, drags, invoked, log>>

\* MyApp::update -> custom_painting with drag delta d.
CustomPainting(d) ==
    /\ phase = "running"
    /\ Len(drags) < MaxFrames
    /\ LET after == Accumulate(angle, FromInt(d))
       IN  /\ angle' = after
           /\ queue' = Register(queue, [rect  |-> CanvasSize,
                                        angle |-> Capture(angle, after),
                                        frame |-> Len(drags) + 1])
    /\ drags' = Append(drags, d)
    /\ invoked' = Append(invoked, 0)
    /\ UNCHANGED <<phase, startup, lock, camera, model, pc, cur, log>>

\* The host calls the closure of callback cb on thread t with info.
Invoke(t, cb, info) ==
    /\ pc[t] = "idle"
    /\ pc' = [pc EXCEPT ![t] = "lock"]
    /\ cur' = [cur EXCEPT ![t] = [angle |-> cb.angle, frame |-> cb.frame,
                                  info |-> info, draws |-> 0,
                                  invoked_at |-> Len(drags)]]
    /\ invoked' = [invoked EXCEPT ![cb.frame] = @ + 1]

\* custom_3d.lock()
Lock(t) ==
    /\ pc[t] = "lock"
    /\ LockFree(lock)
    /\ lock' = t
    /\ pc' = [pc EXCEPT ![t] = PaintSequence[1]]
    /\ UNCHANGED <<phase, startup, angle, camera, model, queue, cur, drags, invoked, log>>

\* paint: self.camera.set_viewport(viewport)
SetViewport(t) ==
    /\ pc[t] = "set_viewport"
    /\ camera' = SetCameraViewport(camera, ViewportOf(cur[t].info))
    /\ pc' = [pc EXCEPT ![t] = After("set_viewport")]
    /\ UNCHANGED <<phase, startup, angle, lock, model, queue, cur, drags, invoked, log>>

\* paint: self.model.set_transformation(Mat4::from_angle_y(radians(angle)))
SetTransformation(t) ==
    /\ pc[t] = "set_transformation"
    /\ model' = SetModelTransformation(model, FromAngleY(cur[t].angle))
    /\ pc' = [pc EXCEPT ![t] = After("set_transformation")]
    /\ UNCHANGED <<phase, startup, angle, lock, camera, queue, cur, drags, invoked, log>>

\* paint: self.model.render(&self.camera, &[])
Render(t) ==
    /\ pc[t] = "render"
    /\ log' = Append(log, [frame |-> cur[t].frame, angle |-> cur[t].angle,
                           info |-> cur[t].info, invoked_at |-> cur[t].invoked_at,
                           viewport |-> camera.viewport,
                           transformation |-> model.transformation,
                           positions |-> model.positions, colors |-> model.colors])
    /\ cur' = [cur EXCEPT ![t].draws = @ + 1]
    /\ pc' = [pc EXCEPT ![t] = After("render")]
    /\ UNCHANGED <<phase, startup, angle, lock, camera, model, queue, drags, invoked>>

\* The MutexGuard is dropped at the end of the closure's statement.
Unlock(t) ==
    /\ pc[t] = "unlock"
    /\ lock' = "free"
    /\ pc' = [pc EXCEPT ![t] = "idle"]
    /\ cur' = [cur EXCEPT ![t] = NoValue]
    /\ UNCHANGED <<phase, startup, angle, camera, model, queue, drags, invoked, log>>

\* ---- the eframe frame loop: update, then the frame's callbacks, one thread
\* The previous frame is over: its callbacks were invoked and have returned.
FrameDone == queue = <<>> /\ \A t \in HostThreads : pc[t] = "idle"

Update ==
    /\ FrameDone
    /\ \E d \in DragDeltas : CustomPainting(d)

PaintCallback ==
    /\ queue # <<>>
    /\ \E info \in PixelRects : Invoke(MainThread, Head(queue), info)
    /\ queue' = Tail(queue)
    /\ UNCHANGED <<phase, startup, angle, lock, camera, model, drags, log>>

Next ==
    \/ New
    \/ Update
    \/ PaintCallback
    \/ Lock(MainThread)
    \/ SetViewport(MainThread)
    \/ SetTransformation(MainThread)
    \/ Render(MainThread)
    \/ Unlock(MainThread)

Spec == Init /\ [][Next]_vars

\* ---- a host using all that CallbackFn's Send + Sync + Fn bound allows: any
\* ---- registered callback, on any thread, at any time, any number of times
SharedDeltas == {1}

SharedRect == CHOOSE r \in PixelRects : r.left_px > 0

UpdateShared ==
    /\ pc[MainThread] = "idle"
    /\ Len(drags) < MaxSharedFrames
    /\ \E d \in SharedDeltas : CustomPainting(d)

InvokeShared(t) ==
    /\ Total(invoked) < MaxInvocations
    /\ \E i \in 1..Len(queue) : Invoke(t, queue[i], SharedRect)
    /\ UNCHANGED <<phase, startup, angle, lock, camera, model, queue, drags, log>>

NextShared ==
    \/ New
    \/ UpdateShared
    \/ \E t \in HostThreads :
         \/ InvokeShared(t)
         \/ Lock(t)
         \/ SetViewport(t)
         \/ SetTransformation(t)
         \/ Render(t)
         \/ Unlock(t)

SpecShared == Init /\ [][NextShared]_vars

\* ------------------------------------------------------------- properties
Front(s) == SubSeq(s, 1, Len(s) - 1)

\* The angle after frames with the drag deltas s, from 0.0.
RECURSIVE AngleAfter(_)
AngleAfter(s) ==
    IF s = <<>> THEN ZeroF32
    ELSE AddF32(AngleAfter(Front(s)), MulF32(FromInt(s[Len(s)]), Sensitivity))

\* sum(di) * 0.01, the sum being exact.
ScaledSum(s) == MulF32(FromInt(Total(s)), Sensitivity)

Permuted(s, p) == [i \in 1..Len(s) |-> s[p[i]]]

\* A paint call is between taking the lock and dropping it.
InPaint(t) == pc[t] \in {"set_viewport", "set_transformation", "render", "unlock"}

NoPaintRunning == \A t \in HostThreads : ~InPaint(t)

\* C1 as stated: after any frames the angle is sum(di) * 0.01, and every
\* order of the same drag deltas ends in the same angle.
C1_SumTimesSensitivity ==
    phase = "running" =>
        /\ angle = ScaledSum(drags)
        /\ \A p \in Permutations(1..Len(drags)) : AngleAfter(Permuted(drags, p)) = angle

\* C1 amended: the angle is the f32 accumulation, frame by frame in the order
\* of the frames, of the f32 products di * 0.01, starting from 0.0; no
\* operation clamps, wraps or resets it.
C1_AngleIsF32Accumulation ==
    phase = "running" => angle = AngleAfter(drags)

\* Three frames whose accumulated angle differs from sum(di) * 0.01.
C1_Witness ==
    /\ phase = "running"
    /\ Len(drags) = 3
    /\ angle = AngleAfter(drags)
    /\ angle # ScaledSum(drags)

\* The angle passed to the latest paint call that has set the transformation.
LatestPaintAngle ==
    IF \E t \in HostThreads : pc[t] \in {"render", "unlock"}
    THEN cur[CHOOSE t \in HostThreads : pc[t] \in {"render", "unlock"}].angle
    ELSE log[Len(log)].angle

\* C2: once a paint call has set the transformation, the mesh transformation
\* is the rotation about Y by the angle of the latest paint call, whatever
\* the angles of the calls before it.
C2_TransformationIsLatestAngle ==
    (log # <<>> \/ \E t \in HostThreads : pc[t] \in {"render", "unlock"})
        => model.transformation = FromAngleY(LatestPaintAngle)

\* Two finished paint calls with different non-zero angles.
C2_Witness ==
    /\ Len(log) >= 2
    /\ NoPaintRunning
    /\ log[1].angle # ZeroF32
    /\ log[2].angle # ZeroF32
    /\ log[2].angle # log[1].angle
    /\ model.transformation = FromAngleY(log[Len(log)].angle)

\* C3: the mesh keeps the 3 vertices, positions and colours of its
\* construction, and the camera everything but its viewport, through every
\* frame update and paint call; every draw call sees that geometry.
C3_GeometryUnchanged ==
    phase = "running" =>
        /\ Len(model.positions) = 3
        /\ Len(model.colors) = 3
        /\ [model EXCEPT !.transformation = Identity] = NewModel
        /\ [camera EXCEPT !.viewport = PlaceholderViewport] = NewCamera
        /\ \A i \in 1..Len(log) : log[i].positions = Positions /\ log[i].colors = Colors

\* Two paint calls that did change the viewport and the transformation.
C3_Witness ==
    /\ Len(log) >= 2
    /\ Len(drags) >= 2
    /\ camera.viewport # PlaceholderViewport
    /\ model.transformation # Identity
    /\ model.positions = Positions

\* n is the integer nearest to q quarter pixels, a half going away from zero.
NearestAwayFromZero(n, q) ==
    /\ 2 * Abs(PxUnit * n - q) <= PxUnit
    /\ 2 * Abs(PxUnit * n - q) = PxUnit => Abs(PxUnit * n) > Abs(q)

RoundedRect(v, info) ==
    /\ NearestAwayFromZero(v.x, info.left_px)
    /\ NearestAwayFromZero(v.y, info.from_bottom_px)
    /\ NearestAwayFromZero(v.width, info.width_px)
    /\ NearestAwayFromZero(v.height, info.height_px)

\* C4: the viewport a paint call sets on the camera, and draws with, is the
\* reported rectangle with left, from-bottom, width and height each rounded
\* to the nearest integer, halves away from zero.
C4_ViewportIsRoundedRect ==
    /\ \A t \in HostThreads :
         pc[t] \in {"set_transformation", "render", "unlock"}
            => RoundedRect(camera.viewport, cur[t].info)
    /\ \A i \in 1..Len(log) : RoundedRect(log[i].viewport, log[i].info)

\* A draw with left -0.5 and from-bottom -0.75, where top rounds differently.
C4_Witness ==
    \E i \in 1..Len(log) :
        /\ log[i].info.left_px = -2
        /\ log[i].viewport.x = -1
        /\ log[i].viewport.y = -1
        /\ ~NearestAwayFromZero(log[i].viewport.y, log[i].info.top_px)

StartupFails ==
    /\ startup # NoValue
    /\ startup.gl = "None" \/ startup.first = "Err" \/ startup.second = "Err"

C6_PaintHoldsLock ==
    /\ \A t \in HostThreads : InPaint(t) => lock = t
    /\ \A t, u \in HostThreads : InPaint(t) /\ InPaint(u) => t = u
    /\ NoPaintRunning => lock = "free"

\* One thread is inside paint while the other waits for the lock.
C6_Witness ==
    /\ pc["worker"] = "set_transformation"
    /\ pc["main"] = "lock"
    /\ lock = "worker"

FrameCallbacks(f) == Cardinality({i \in 1..Len(queue) : queue[i].frame = f})

Rect512 ==
    [left_px |-> 0, top_px |-> 0, from_bottom_px |-> 0,
     width_px |-> PxUnit * CanvasSize, height_px |-> PxUnit * CanvasSize]

WholePixels(info) ==
    /\ info.left_px % PxUnit = 0
    /\ info.from_bottom_px % PxUnit = 0
    /\ info.width_px % PxUnit = 0
    /\ info.height_px % PxUnit = 0

\* C8: from angle 0 one frame with drag delta +100 makes the angle 1.0; its
\* paint with the rectangle (0, 0, 512, 512) draws with the rotation about Y
\* by 1.0 and the viewport (0, 0, 512, 512); any rectangle of whole pixels
\* becomes the viewport unchanged.
C8_EndToEnd ==
    /\ drags = <<100>> => angle = FromInt(1)
    /\ \A i \in 1..Len(log) :
         /\ (log[i].frame = 1 /\ drags[1] = 100 /\ log[i].info = Rect512) =>
               /\ log[i].angle = FromInt(1)
               /\ log[i].transformation = FromAngleY(FromInt(1))
               /\ log[i].viewport = [x |-> 0, y |-> 0, width |-> CanvasSize,
                                     height |-> CanvasSize]
         /\ WholePixels(log[i].info) =>
               /\ PxUnit * log[i].viewport.x = log[i].info.left_px
               /\ PxUnit * log[i].viewport.y = log[i].info.from_bottom_px
               /\ PxUnit * log[i].viewport.width = log[i].info.width_px
               /\ PxUnit * log[i].viewport.height = log[i].info.height_px

\* The scenario itself, its paint finished.
C8_Witness ==
    /\ drags = <<100>>
    /\ Len(log) = 1
    /\ log[1].info = Rect512
    /\ NoPaintRunning
    /\ model.transformation = FromAngleY(FromInt(1))
    /\ camera.viewport.width = CanvasSize

\* C9: a callback carries the angle as it is after its own frame's drag
\* delta was accumulated; an invocation paints with that value however many
\* frames have passed since, and leaves the shell's angle alone.
C9_CallbackCarriesFrameAngle ==
    /\ \A i \in 1..Len(queue) : queue[i].angle = AngleAfter(SubSeq(drags, 1, queue[i].frame))
    /\ \A t \in HostThreads :
         cur[t] # NoValue => cur[t].angle = AngleAfter(SubSeq(drags, 1, cur[t].frame))
    /\ \A i \in 1..Len(log) :
         /\ log[i].angle = AngleAfter(SubSeq(drags, 1, log[i].frame))
         /\ log[i].transformation = FromAngleY(log[i].angle)
    /\ phase = "running" => angle = AngleAfter(drags)

\* A callback invoked after a later frame changed the shell's angle.
C9_Witness ==
    \E i \in 1..Len(log) :
        /\ log[i].invoked_at > log[i].frame
        /\ log[i].angle # angle
        /\ log[i].transformation = FromAngleY(log[i].angle)

BeforeDraw(t) == pc[t] \in {"lock", "set_viewport", "set_transformation", "render"}

\* C10: a paint call draws once, after it has set the viewport and the
\* transformation from its own arguments: no draw uses the placeholder
\* viewport or what an earlier call left.
C10_DrawAfterSetup ==
    /\ \A i \in 1..Len(log) :
         /\ log[i].viewport = ViewportOf(log[i].info)
         /\ log[i].viewport # PlaceholderViewport
         /\ log[i].transformation = FromAngleY(log[i].angle)
    /\ \A t \in HostThreads :
         cur[t] # NoValue => cur[t].draws = IF BeforeDraw(t) THEN 0 ELSE 1
    /\ Len(log) = Total(invoked) - Cardinality({t \in HostThreads : BeforeDraw(t)})

\* A second draw whose rectangle and angle differ from the first draw's.
C10_Witness ==
    /\ Len(log) >= 2
    /\ log[2].info # log[1].info
    /\ log[2].angle # log[1].angle
    /\ log[2].viewport # log[1].viewport

====
